---- MODULE Spec2Model ----
(***************************************************************************)
(* External-memory sort of variable-length records (xxlsort).              *)
(*                                                                         *)
(* The model follows the program at the granularity of file offsets: all   *)
(* sizes, addresses and file positions are counted in bytes.  The bytes of *)
(* a key are abstracted to a pair <<prefix, rest>> (the 12 bytes held in a *)
(* sort element and the remaining 52), the bytes of a body to an           *)
(* identifier of its content.  A file is the list of the records written   *)
(* to it, each with the offset of its header, and its size in bytes.       *)
(***************************************************************************)
EXTENDS Integers, Sequences, FiniteSets, TLC

(***************************************************************************)
(* Bounds of the model.                                                    *)
(***************************************************************************)
MaxRecs == 3        \* longest input file, in records
MaxTmp == 4         \* temporary files one run of the program may create

(***************************************************************************)
(* Program constants.                                                      *)
(***************************************************************************)
KiB == 1024
MiB == 1024 * KiB
ALIGNMENT_MAX == 64 * KiB            \* mem_chunk::ALIGNMENT_MAX
EXT_SIZE == 88                       \* repr_traits<record_header>::SIZE
INT_SIZE == 97                       \* repr_traits<record_header2>::SIZE
INT_ALIGNMENT == 16                  \* repr_traits<record_header2>::ALIGNMENT
HD2_ALIGNOF == 64                    \* alignof(record_header2)
HD2_SIZEOF == 128                    \* sizeof(record_header2)
SORT_ELEMENT_SIZE == 16              \* sizeof(sort_element)
MaxBodySize == 100 * MiB             \* parse_header: body_size > 100 * MiB
DeferThreshold == 1 * MiB            \* split_and_sort: threshold
InputBufSize == 4 * MiB              \* split_and_sort: input_mem
SortOutBufSize == 25 * MiB           \* split_and_sort: output_mem
MergeOutBufSize == 40 * MiB          \* merge_sorted: output_buf_mem
MergeInBufSize == 25 * MiB           \* merge_sorted: input_buf_size

Min(a, b) == IF a < b THEN a ELSE b
Max(a, b) == IF a > b THEN a ELSE b
Range(s) == {s[i] : i \in 1..Len(s)}

\* ((origin + n - 1) & ~(n - 1)) - origin
AlignPad(origin, n) == (n - (origin % n)) % n

(***************************************************************************)
(* Keys: memcmp over the 64 bytes of a key.                                *)
(***************************************************************************)
KeyCmp(a, b) ==
    IF a[1] # b[1] THEN (IF a[1] < b[1] THEN -1 ELSE 1)
    ELSE IF a[2] # b[2] THEN (IF a[2] < b[2] THEN -1 ELSE 1)
    ELSE 0

\* The content of a byte range: <<i>> for the body of record i of the input,
\* <<>> for no bytes, Junk for bytes that are not exactly one body.
EmptyBody == <<>>
Junk == <<-1>>

(***************************************************************************)
(* The inputs.  A record kind is a key and a body size; the flags and the  *)
(* body content of a record are its position in the file, so that all the  *)
(* records of an input are different.                                      *)
(***************************************************************************)
Kinds ==
    { <<<<2, 0>>, 0>>,
      <<<<1, 1>>, 1 * MiB>>,
      <<<<1, 0>>, 30 * MiB>>,
      <<<<0, 1>>, 40 * MiB - 1>>,
      <<<<0, 0>>, 100 * MiB>>,
      <<<<2, 1>>, 100 * MiB + 1>> }

KindSeqs == UNION {[1..n -> Kinds] : n \in 0..MaxRecs}

MkInput(ks) ==
    [i \in 1..Len(ks) |->
        [key |-> ks[i][1], flags |-> i, crc |-> 7, body_size |-> ks[i][2],
         body |-> IF ks[i][2] = 0 THEN EmptyBody ELSE <<i>>]]

\* Arena sizes after mem_chunk::aligned(): multiples of 64 KiB.
ArenaSizes == {0, 32 * MiB, 64 * MiB, 80 * MiB, 90 * MiB, 160 * MiB}

NoHd == [key |-> <<0, 0>>, flags |-> 0, crc |-> 0, body_size |-> 0,
         body_pos |-> 0, is_body_present |-> 0]

(***************************************************************************)
(* Files.                                                                  *)
(***************************************************************************)
EmptyFile == [items |-> <<>>, size |-> 0]

\* The bytes records lo..hi of an input take in the source file.
RECURSIVE SrcBytes(_, _, _)
SrcBytes(inp, lo, hi) ==
    IF lo > hi THEN 0
    ELSE IF lo = hi THEN EXT_SIZE + inp[lo].body_size
    ELSE LET mid == (lo + hi) \div 2
         IN  SrcBytes(inp, lo, mid) + SrcBytes(inp, mid + 1, hi)

\* The offset of record i in the source file.
SrcOffset(inp, i) == SrcBytes(inp, 1, i - 1)

\* The source file: external records, back to back, the last c bytes of
\* the last record missing.  blen is the number of bytes of the body that the
\* file holds; a header the file holds in part is never decoded.
SrcFile(inp, c) ==
    LET size == SrcOffset(inp, Len(inp) + 1) - c
    IN  [items |-> [i \in 1..Len(inp) |->
                       [off |-> SrcOffset(inp, i),
                        hd |-> [key |-> inp[i].key, flags |-> inp[i].flags,
                                crc |-> inp[i].crc,
                                body_size |-> inp[i].body_size],
                        blen |-> Max(0, Min(inp[i].body_size,
                                            size - SrcOffset(inp, i) - EXT_SIZE)),
                        body |-> inp[i].body]],
         size |-> size]

\* The ways the model truncates an input: one byte short, the header of
\* the last record short of one byte, one byte of that header left.
CutsOf(inp) ==
    IF inp = <<>> THEN {}
    ELSE {1, inp[Len(inp)].body_size + 1, inp[Len(inp)].body_size + EXT_SIZE - 1}

\* The header found by reading hsize bytes of file f at offset p.
HasItemAt(f, p) == \E i \in 1..Len(f.items) : f.items[i].off = p
ItemAt(f, p) == f.items[CHOOSE i \in 1..Len(f.items) : f.items[i].off = p]

\* The content of the n bytes of file f at offset p, read as a body that
\* follows a header of hsize bytes.
BodyAt(f, p, n, hsize) ==
    IF n = 0 THEN EmptyBody
    ELSE IF \E i \in 1..Len(f.items) :
                f.items[i].off + hsize = p /\ f.items[i].blen = n
         THEN (LET i == CHOOSE j \in 1..Len(f.items) :
                            f.items[j].off + hsize = p /\ f.items[j].blen = n
               IN  f.items[i].body)
         ELSE Junk

(***************************************************************************)
(* parse_buf: a window of the file held in memory.  fpos is the position   *)
(* of the file handle (the offset of the end of the window), dsize the     *)
(* number of unread bytes of the window, dend the address of data.end()    *)
(* counted from mem.begin(), a multiple of ALIGNMENT_MAX, dnull tells that *)
(* data is the null chunk (before the first refill and after a seek).      *)
(***************************************************************************)
PB_Init == [fpos |-> 0, dsize |-> 0, dend |-> 0, dnull |-> TRUE]

\* parse_buf::get_file_pos
PB_Pos(pb) == pb.fpos - pb.dsize

\* Mutant: a refill puts the window at the start of mem.
PB_AnchorAtStart(fpos, msize) == 0
\* The refill: data = mem.sub_chunk(file_pos & (ALIGNMENT_MAX - 1), -1), the
\* offset of the window in mem.
PB_Anchor(fpos, msize) == Min(fpos % ALIGNMENT_MAX, msize)

\* parse_buf::read(mem_chunk &): the buffer after reading up to n bytes of a
\* file of fsize bytes through a buffer of msize bytes, and the number read.
RECURSIVE PB_ReadLoop(_, _, _, _, _)
PB_ReadLoop(pb, need, have, fsize, msize) ==
    IF need = 0 THEN [pb |-> pb, got |-> have]
    ELSE IF pb.dsize = 0
    THEN LET at  == PB_Anchor(pb.fpos, msize)
             n   == Min(msize - at, Max(0, fsize - pb.fpos))
         IN  IF n = 0
             THEN [pb |-> [pb EXCEPT !.dnull = FALSE, !.dend = at], got |-> have]
             ELSE PB_ReadLoop([fpos |-> pb.fpos + n, dsize |-> n, dend |-> at + n,
                               dnull |-> FALSE],
                              need, have, fsize, msize)
    ELSE LET take == Min(need, pb.dsize)
         IN  PB_ReadLoop([pb EXCEPT !.dsize = @ - take],
                         need - take, have + take, fsize, msize)

PB_Read(pb, n, fsize, msize) == PB_ReadLoop(pb, n, 0, fsize, msize)

\* parse_buf::skip.  seeks tells that the file handle has to seek.
PB_SkipSeeks(pb, n) == n > pb.dsize
\* Mutant: the seek goes to the count of bytes, taken from the start of the
\* file.
PB_SkipAbsolute(pb, n) ==
    IF n <= pb.dsize
    THEN [pb EXCEPT !.dsize = @ - n]
    ELSE [fpos |-> n - pb.dsize, dsize |-> 0, dend |-> 0, dnull |-> TRUE]
PB_Skip(pb, n) ==
    IF n <= pb.dsize
    THEN [pb EXCEPT !.dsize = @ - n]
    ELSE [fpos |-> pb.fpos + (n - pb.dsize), dsize |-> 0, dend |-> 0, dnull |-> TRUE]

\* The address of data.end() modulo ALIGNMENT_MAX; the null chunk ends at
\* address 0.
PB_DataEnd(pb) == IF pb.dnull THEN 0 ELSE pb.dend % ALIGNMENT_MAX

\* parse_buf::align
PB_AlignPad(pb, n) == AlignPad(PB_DataEnd(pb), n)
PB_Align(pb, n) == PB_Skip(pb, PB_AlignPad(pb, n))

(***************************************************************************)
(* Record codec.                                                           *)
(***************************************************************************)
\* The external header the bytes at offset p of the source decode to.
ExtHeaderAt(f, p) ==
    IF HasItemAt(f, p) THEN ItemAt(f, p).hd
    ELSE [key |-> <<0, 0>>, flags |-> 0, crc |-> 0, body_size |-> 0]

\* parse_header(parse_buf &, record_header &, record_header2 &, file_size_t &)
\* after buf.get(external_hd) returned true: ext is the header read, pos the
\* position of the buffer after it.
\* Mutant: the limit itself is refused.
BodySizeOkStrict(ext) == ~(ext.body_size >= MaxBodySize)
BodySizeOk(ext) == ~(ext.body_size > MaxBodySize)

\* Mutant: body_pos taken before the header is read.
ParseHeaderPosBefore(ext, pos) ==
    [key |-> ext.key, flags |-> ext.flags, crc |-> ext.crc,
     body_size |-> ext.body_size, body_pos |-> pos - EXT_SIZE,
     is_body_present |-> 1]
parse_header(ext, pos) ==
    [key |-> ext.key, flags |-> ext.flags, crc |-> ext.crc,
     body_size |-> ext.body_size, body_pos |-> pos, is_body_present |-> 1]

\* Mutant: the crc is not copied.
ExportHeaderDropCrc(hd2) ==
    [key |-> hd2.key, flags |-> hd2.flags, crc |-> 0,
     body_size |-> hd2.body_size]
\* export_record: the external header written for hd2.
export_header(hd2) ==
    [key |-> hd2.key, flags |-> hd2.flags, crc |-> hd2.crc,
     body_size |-> hd2.body_size]

(***************************************************************************)
(* parser<header_t, external_header_t>                                     *)
(***************************************************************************)
ParserInit == [pb |-> PB_Init, hd_valid |-> FALSE, hd |-> NoHd, body_left |-> 0]

\* parser<record_header2, record_header>::parse_next on the source file f.
\* err: "none", "seek" (skip on a source that cannot seek), "malformed".
ParseNextExt(ps, f, msize, canseek) ==
    IF PB_SkipSeeks(ps.pb, ps.body_left) /\ ~canseek
    THEN [ps |-> ps, err |-> "seek"]
    ELSE LET pb1 == PB_Skip(ps.pb, ps.body_left)
             p   == PB_Pos(pb1)
             r   == PB_Read(pb1, EXT_SIZE, f.size, msize)
             ext == ExtHeaderAt(f, p)
         IN  IF r.got # EXT_SIZE
             THEN [ps |-> [ps EXCEPT !.pb = r.pb, !.hd_valid = FALSE], err |-> "none"]
             ELSE IF ~BodySizeOk(ext)
             THEN [ps |-> [ps EXCEPT !.pb = r.pb], err |-> "malformed"]
             ELSE [ps |-> [pb |-> r.pb, hd_valid |-> TRUE,
                           hd |-> parse_header(ext, PB_Pos(r.pb)),
                           body_left |-> ext.body_size],
                   err |-> "none"]

\* The constructor of the parser of the source: parse_buf over mem and the
\* file, then the first parse_next.
ParserCtorExt(f, msize, canseek) == ParseNextExt(ParserInit, f, msize, canseek)

\* The headers that 97 bytes which are not a header of the file may decode
\* to.  Such bytes are bytes of a body, which the input chooses freely; two
\* outcomes are kept: a record of the least key whose body is the rem bytes
\* left in the file (the misread tail is consumed and the stream ends), and
\* one whose body is a byte longer than the file ("Data corrupt").
GarbageHds(rem) ==
    { [key |-> <<0, 0>>, flags |-> 0, crc |-> 0, body_size |-> n,
       body_pos |-> 0, is_body_present |-> 1] : n \in {rem, rem + 1} }

\* Mutant: the body of every record is taken to follow its header.
BodyLeftAlways(hd) == hd.body_size
\* parse_header of an internal header: the bytes of body that follow it.
BodyLeft(hd) == IF hd.is_body_present # 0 THEN hd.body_size ELSE 0

\* parser<record_header2>::parse_next on run file f; g is the header that
\* the bytes decode to when they are not a header of the file.
IntReadPos(ps) ==
    LET pb1 == PB_Skip(ps.pb, ps.body_left)
    IN  PB_Pos(PB_Align(pb1, INT_ALIGNMENT))
ParseNextInt(ps, f, msize, g) ==
    LET pb1 == PB_Skip(ps.pb, ps.body_left)
        pb2 == PB_Align(pb1, INT_ALIGNMENT)
        p   == PB_Pos(pb2)
        r   == PB_Read(pb2, INT_SIZE, f.size, msize)
        hd  == IF HasItemAt(f, p) THEN ItemAt(f, p).hd ELSE g
    IN  IF r.got # INT_SIZE
        THEN [ps EXCEPT !.pb = r.pb, !.hd_valid = FALSE]
        ELSE [pb |-> r.pb, hd_valid |-> TRUE, hd |-> hd,
              body_left |-> BodyLeft(hd)]

\* The constructor of the parser of a run file: the first parse_next reads
\* the header at offset 0.
ParserCtorInt(f, msize) == ParseNextInt(ParserInit, f, msize, NoHd)

\* parser::read_body(body_chunk) with a slice of cap bytes.  more is the
\* value returned, ok is false when the file ends inside the chunk ("Data
\* corrupt"), body the content delivered.
ReadBody(ps, f, msize, hsize, cap) ==
    LET n == Min(cap, ps.body_left)
        r == PB_Read(ps.pb, n, f.size, msize)
    IN  IF n = 0
        THEN [ps |-> ps, more |-> FALSE, ok |-> TRUE, got |-> 0, body |-> EmptyBody]
        ELSE [ps |-> [ps EXCEPT !.pb = r.pb, !.body_left = @ - n],
              more |-> TRUE,
              ok |-> r.got = n,
              got |-> n,
              body |-> BodyAt(f, PB_Pos(ps.pb), n, hsize)]

(***************************************************************************)
(* The state of the program.                                               *)
(***************************************************************************)
VARIABLES
    pc,                 \* position in main / split_and_sort / merge_sorted
    arena,              \* size of available_mem (after aligned())
    seekable,           \* input_file::is_seekable() of the source
    input,              \* the records of the source file
    cut,                \* bytes missing at the end of the source file
    dest,               \* the destination path: exists, records
    dest_auto_unlink,   \* dest_file->auto_unlink
    tmp,                \* the temporary files created so far, by id
    tmpLive,            \* ids of the temporary files that exist on disk
    transient_files,    \* std::deque<file_id_t>
    src_parser,         \* split_and_sort: input
    segment_no,         \* split_and_sort: segment_no
    membuf,             \* split_and_sort: membuf and the array [vb, ve)
    out,                \* the render_buf output of the current pass
    input_streams,      \* merge_sorted: input_streams
    merger,             \* merge_sorted: merger (indices of input_streams)
    error,              \* the exception caught by main, "none" before
    peak,               \* most bytes the temporary files held together
    peak_seek           \* peak of an earlier sort of the file, -1 if none

vars == <<pc, arena, seekable, input, cut, dest, dest_auto_unlink, tmp, tmpLive,
          transient_files, src_parser, segment_no, membuf, out,
          input_streams, merger, error, peak, peak_seek>>

Src == SrcFile(input, cut)

NoDest == [exists |-> FALSE, items |-> <<>>]
NoOut == [open |-> FALSE, id |-> 0, final |-> FALSE]
EmptyMembuf == [dend |-> 0, recs |-> <<>>, elems |-> <<>>]

\* A mem_chunk: p is the offset of its first byte from the start of the
\* arena, size its length.
ArenaChunk == [p |-> 0, size |-> arena]

\* Mutant: split_at does not clamp pos to the size of the chunk.
SplitAtNoClamp(c, pos) ==
    [left  |-> [p |-> c.p, size |-> pos],
     right |-> [p |-> c.p + pos, size |-> c.size - pos]]
\* mem_chunk::split_at
split_at(c, pos) ==
    LET n == Min(pos, c.size)
    IN  [left  |-> [p |-> c.p, size |-> n],
         right |-> [p |-> c.p + n, size |-> c.size - n]]

\* split_and_sort: input_mem, output_mem and membuf_mem.
input_mem == split_at(ArenaChunk, InputBufSize).left
output_mem == split_at(split_at(ArenaChunk, InputBufSize).right, SortOutBufSize).left
membuf_mem == split_at(split_at(ArenaChunk, InputBufSize).right, SortOutBufSize).right

\* merge_sorted: output_buf_mem, and available_mem after k runs were popped.
output_buf_mem == split_at(ArenaChunk, MergeOutBufSize).left
RECURSIVE MergeAvailAfter(_)
MergeAvailAfter(k) ==
    IF k = 0 THEN split_at(ArenaChunk, MergeOutBufSize).right
    ELSE split_at(MergeAvailAfter(k - 1), MergeInBufSize).right
\* merge_sorted: input_buf_mem of the k-th run popped.
input_buf_mem(k) == split_at(MergeAvailAfter(k - 1), MergeInBufSize).left

\* mem_chunk::split_at carves: the sizes of the buffers of split_and_sort.
InputMemSize == Min(InputBufSize, arena)
SortOutMemSize == Min(SortOutBufSize, arena - InputMemSize)
MembufSize == arena - InputMemSize - SortOutMemSize
MembufBase == InputMemSize + SortOutMemSize

\* Mutant: an open parser does not hold the id of its file.
RefsQueueOnly(q, streams, o) ==
    Range(q) \cup (IF o.open /\ ~o.final THEN {o.id} ELSE {})
\* The file ids some shared_ptr still holds: the queue, the file handles of
\* the open parsers, the file handle of the output.
Refs(q, streams, o) ==
    Range(q) \cup {streams[i].id : i \in 1..Len(streams)}
             \cup (IF o.open /\ ~o.final THEN {o.id} ELSE {})

\* The bytes the temporary files on disk hold together.
RECURSIVE TempBytes(_, _)
TempBytes(files, live) ==
    IF live = {} THEN 0
    ELSE LET id == CHOOSE x \in live : TRUE
         IN  files[id].size + TempBytes(files, live \ {id})

\* Mutant: the destructor never unlinks.
FilesLeftNoUnlink(live, q, streams, o) == live
\* file_id::~file_id: the temporary files left on disk; a file is unlinked
\* when its last holder drops.
FilesLeft(live, q, streams, o) == live \cap Refs(q, streams, o)

\* The state of the process when main is entered.
InitProcess ==
    /\ pc = "main"
    /\ dest = NoDest
    /\ dest_auto_unlink = FALSE
    /\ tmp = <<>>
    /\ tmpLive = {}
    /\ transient_files = <<>>
    /\ src_parser = ParserInit
    /\ segment_no = 0
    /\ membuf = EmptyMembuf
    /\ out = NoOut
    /\ input_streams = <<>>
    /\ merger = <<>>
    /\ error = "none"
    /\ peak = 0
    /\ peak_seek = -1

InitRun ==
    /\ \E ks \in KindSeqs : input = MkInput(ks)
    /\ arena \in ArenaSizes
    /\ seekable \in BOOLEAN
    /\ InitProcess

\* The source is a well-formed file.
Init == InitRun /\ cut = 0

\* The source ends inside its last record.
InitTrunc == InitRun /\ cut \in CutsOf(input)

\* An exception reaches the handlers of main: the locals of the try block
\* are destroyed, the process exits with EXIT_FAILURE.
Throw(e) ==
    /\ pc' = "failed"
    /\ error' = e
    /\ dest' = IF dest_auto_unlink THEN NoDest ELSE dest
    /\ tmpLive' = FilesLeft(tmpLive, <<>>, <<>>, NoOut)
    /\ transient_files' = <<>>
    /\ src_parser' = ParserInit
    /\ segment_no' = 0
    /\ membuf' = EmptyMembuf
    /\ out' = NoOut
    /\ input_streams' = <<>>
    /\ merger' = <<>>
    /\ UNCHANGED <<arena, seekable, input, cut, dest_auto_unlink, tmp, peak,
                   peak_seek>>

\* Mutant: main does not enable auto-unlink.
MainStartNoAutoUnlink ==
    /\ pc = "main"
    /\ dest_auto_unlink' = FALSE
    /\ pc' = "split"
    /\ UNCHANGED <<arena, seekable, input, cut, dest, tmp, tmpLive, transient_files,
                   src_parser, segment_no, membuf, out, input_streams, merger,
                   error, peak, peak_seek>>
\* main: create the file ids, dest_file->set_auto_unlink(true).
MainStart ==
    /\ pc = "main"
    /\ dest_auto_unlink' = TRUE
    /\ pc' = "split"
    /\ UNCHANGED <<arena, seekable, input, cut, dest, tmp, tmpLive, transient_files,
                   src_parser, segment_no, membuf, out, input_streams, merger, error, peak, peak_seek>>

\* split_and_sort: carve input_mem, construct the parser of the source (its
\* first parse_next), open input2.
SplitOpen ==
    /\ pc = "split"
    /\ LET r == ParserCtorExt(Src, InputMemSize, seekable)
       IN  IF r.err # "none" THEN Throw(r.err)
           ELSE /\ src_parser' = r.ps
                /\ segment_no' = 0
                /\ pc' = "pass"
                /\ UNCHANGED <<arena, seekable, input, cut, dest, dest_auto_unlink, tmp,
                               tmpLive, transient_files, membuf, out,
                               input_streams, merger, error, peak, peak_seek>>

\* split_and_sort: the top of the do loop; membuf over membuf_mem, vb = ve.
PassBegin ==
    /\ pc = "pass"
    /\ membuf' = EmptyMembuf
    /\ pc' = "fill"
    /\ UNCHANGED <<arena, seekable, input, cut, dest, dest_auto_unlink, tmp, tmpLive,
                   transient_files, src_parser, segment_no, out, input_streams,
                   merger, error, peak, peak_seek>>

(***************************************************************************)
(* split_and_sort                                                          *)
(***************************************************************************)
\* render_buf::get_free_mem of membuf (a render_buf without a file): the
\* free tail, the whole slice again when the tail is empty.
RB_FreeMem(dend, msize) ==
    IF msize - dend = 0 THEN [dend |-> 0, free |-> msize]
    ELSE [dend |-> dend, free |-> msize - dend]

\* Mutant: a body of exactly the threshold is kept in memory.
ShouldDeferAbove(body_size, canseek) == canseek /\ body_size > DeferThreshold
\* Mutant: no body is ever left in the source.
ShouldDeferNever(body_size, canseek) == FALSE
\* threshold = is_seekable() ? 1 * MiB : -1;  hd.body_size >= threshold
ShouldDefer(body_size, canseek) == canseek /\ body_size >= DeferThreshold

\* The header stored for the record the parser stands on.
StoredHd(hd, canseek) ==
    IF ShouldDefer(hd.body_size, canseek)
    THEN [hd EXCEPT !.is_body_present = 0] ELSE hd

\* Mutant: the test leaves no room for the padding in front of the header.
NoRoomNoAlign(available_sz, body_sz, count) ==
    available_sz < HD2_SIZEOF + body_sz + (count + 1) * SORT_ELEMENT_SIZE
\* The test that ends the fill loop: true when the record does not fit.
NoRoom(available_sz, body_sz, count) ==
    available_sz < HD2_ALIGNOF + HD2_SIZEOF + body_sz
                     + (count + 1) * SORT_ELEMENT_SIZE

FillBodySz(hd) == IF hd.is_body_present # 0 THEN hd.body_size ELSE 0

FillFits ==
    LET hd == StoredHd(src_parser.hd, seekable)
    IN  ~NoRoom(RB_FreeMem(membuf.dend, MembufSize).free, FillBodySz(hd),
                Len(membuf.elems))

\* sort_element::init
SortElementInit(hd, addr) == [prefix |-> hd.key[1], offset |-> addr]

\* One turn of the while loop that fills the workspace.
FillStep ==
    /\ pc = "fill"
    /\ src_parser.hd_valid
    /\ FillFits
    /\ LET hd   == StoredHd(src_parser.hd, seekable)
           fm   == RB_FreeMem(membuf.dend, MembufSize)
           d1   == fm.dend + AlignPad(fm.dend, HD2_ALIGNOF)
           addr == MembufBase + d1
           d2   == d1 + INT_SIZE
           rb   == IF hd.is_body_present # 0
                   THEN ReadBody(src_parser, Src, InputMemSize, EXT_SIZE,
                                 RB_FreeMem(d2, MembufSize).free)
                   ELSE [ps |-> src_parser, more |-> FALSE, ok |-> TRUE,
                         got |-> 0, body |-> EmptyBody]
           pn   == ParseNextExt(rb.ps, Src, InputMemSize, seekable)
           rec  == [addr |-> addr, hd |-> hd, blen |-> rb.got, body |-> rb.body]
       IN  IF ~rb.ok THEN Throw("corrupt")
           ELSE IF pn.err # "none" THEN Throw(pn.err)
           ELSE /\ membuf' = [dend |-> d2 + rb.got,
                              recs |-> Append(membuf.recs, rec),
                              elems |-> <<SortElementInit(hd, addr)>> \o membuf.elems]
                /\ src_parser' = pn.ps
                /\ UNCHANGED <<pc, arena, seekable, input, cut, dest, dest_auto_unlink,
                               tmp, tmpLive, transient_files, segment_no, out,
                               input_streams, merger, error, peak, peak_seek>>

\* sort_element::get_header: the record at base + offset.
get_header(e, recs) ==
    (recs[CHOOSE i \in 1..Len(recs) : recs[i].addr = e.offset]).hd
\* sort_element::get_body: the bytes that follow the header in the workspace.
get_body(e, recs) ==
    LET r == recs[CHOOSE i \in 1..Len(recs) : recs[i].addr = e.offset]
        n == IF r.hd.is_body_present # 0 THEN r.hd.body_size ELSE 0
    IN  [len |-> n,
         body |-> IF n = 0 THEN EmptyBody ELSE IF n = r.blen THEN r.body ELSE Junk]

\* Mutant: elements whose prefixes tie are not compared any further.
SortLessPrefixOnly(a, b, recs) == a.prefix < b.prefix
\* sort_element::operator<
SortLess(a, b, recs) ==
    IF a.prefix # b.prefix THEN a.prefix < b.prefix
    ELSE get_header(a, recs).key[2] < get_header(b, recs).key[2]

\* std::sort(vb, ve): the orders it may leave the elements in.
RECURSIVE SortOutcomes(_, _)
SortOutcomes(S, recs) ==
    IF S = {} THEN {<<>>}
    ELSE UNION { {<<m>> \o t : t \in SortOutcomes(S \ {m}, recs)} :
                 m \in {x \in S : \A y \in S : ~SortLess(y, x, recs)} }

\* file_id::create_temporary: the id of the file created.
NewTmpId == Len(tmp) + 1

\* Mutant: the test of segment_no is left out.
IsFinalAnySegment(seg, valid) == ~valid
\* bool is_final = (segment_no==0 && !input.is_header_valid());
IsFinal(seg, valid) == seg = 0 /\ ~valid

\* The end of a fill: sort, choose the output file, open it.
SortStep ==
    /\ pc = "fill"
    /\ ~(src_parser.hd_valid /\ FillFits)
    /\ \E s \in SortOutcomes(Range(membuf.elems), membuf.recs) :
          membuf' = [membuf EXCEPT !.elems = s]
    /\ IF IsFinal(segment_no, src_parser.hd_valid)
       THEN /\ out' = [open |-> TRUE, id |-> 0, final |-> TRUE]
            /\ dest' = [exists |-> TRUE, items |-> <<>>]
            /\ UNCHANGED <<tmp, tmpLive, transient_files, error, peak, peak_seek>>
       ELSE /\ Len(tmp) < MaxTmp
            /\ out' = [open |-> TRUE, id |-> NewTmpId, final |-> FALSE]
            /\ tmp' = Append(tmp, EmptyFile)
            /\ tmpLive' = tmpLive \cup {NewTmpId}
            /\ transient_files' = Append(transient_files, NewTmpId)
            /\ UNCHANGED dest
    /\ pc' = "write"
    /\ UNCHANGED <<arena, seekable, input, cut, dest_auto_unlink, src_parser,
                   segment_no, input_streams, merger, error, peak, peak_seek>>

\* render_buf::put(record_header2) and write(body) on a run file: the header
\* goes to the next offset that is a multiple of its alignment.
AppendInt(f, hd, blen, body) ==
    LET off == f.size + AlignPad(f.size, INT_ALIGNMENT)
    IN  [items |-> Append(f.items, [off |-> off, hd |-> hd, blen |-> blen,
                                     body |-> body]),
         size |-> off + INT_SIZE + blen]

RECURSIVE EmitInt(_, _, _, _)
EmitInt(f, elems, recs, i) ==
    IF i > Len(elems) THEN f
    ELSE LET b == get_body(elems[i], recs)
         IN  EmitInt(AppendInt(f, get_header(elems[i], recs), b.len, b.body),
                     elems, recs, i + 1)

\* export_record: the body fetched from the source for a header without
\* body; ExportOk is false when a read fails ("Data corrupt") or the source
\* cannot seek.
ExportOk(hd2, src, canseek) ==
    \/ hd2.is_body_present # 0
    \/ canseek /\ hd2.body_pos + hd2.body_size <= src.size
\* The record the destination holds after export_record and the write of
\* the inline body (inl: its length and content).
ExportRecord(hd2, inl, src) ==
    LET ext == export_header(hd2)
    IN  [key |-> ext.key, flags |-> ext.flags, crc |-> ext.crc,
         body_size |-> ext.body_size,
         body |-> IF hd2.is_body_present = 0
                  THEN (IF inl.len = 0
                        THEN BodyAt(src, hd2.body_pos, hd2.body_size, EXT_SIZE)
                        ELSE Junk)
                  ELSE (IF inl.len = hd2.body_size THEN inl.body ELSE Junk)]

\* The output loop of a pass, output.flush(), segment_no++, and the test of
\* the do loop; split_and_sort returns when the parser is exhausted.
WriteRun ==
    /\ pc = "write"
    /\ LET elems == membuf.elems
           recs  == membuf.recs
           bad   == \E i \in 1..Len(elems) :
                        ~ExportOk(get_header(elems[i], recs), Src, seekable)
       IN  IF out.final /\ bad THEN Throw(IF seekable THEN "corrupt" ELSE "seek")
           ELSE /\ IF out.final
                   THEN /\ dest' = [exists |-> TRUE,
                                    items |-> [i \in 1..Len(elems) |->
                                        ExportRecord(get_header(elems[i], recs),
                                                     get_body(elems[i], recs), Src)]]
                        /\ tmp' = tmp
                   ELSE /\ tmp' = [tmp EXCEPT ![out.id] =
                                       EmitInt(EmptyFile, elems, recs, 1)]
                        /\ dest' = dest
                /\ out' = NoOut
                /\ tmpLive' = FilesLeft(tmpLive, transient_files, <<>>, NoOut)
                /\ membuf' = EmptyMembuf
                /\ IF src_parser.hd_valid
                   THEN /\ pc' = "pass"
                        /\ segment_no' = segment_no + 1
                        /\ UNCHANGED src_parser
                   ELSE /\ pc' = "merge"
                        /\ segment_no' = 0
                        /\ src_parser' = ParserInit
                /\ peak' = Max(peak, TempBytes(tmp', tmpLive))
                /\ UNCHANGED <<arena, seekable, input, cut, dest_auto_unlink,
                               transient_files, input_streams, merger, error,
                               peak_seek>>

(***************************************************************************)
(* merge_sorted                                                            *)
(***************************************************************************)
\* merge_sorted: open the source for the bodies left there.
MergeEnter ==
    /\ pc = "merge"
    /\ pc' = "mtop"
    /\ UNCHANGED <<arena, seekable, input, cut, dest, dest_auto_unlink, tmp, tmpLive,
                   transient_files, src_parser, segment_no, membuf, out,
                   input_streams, merger, error, peak, peak_seek>>

\* Mutant: the runs are taken from the back of the queue, newest first.
RECURSIVE OpenStreamsFromBack(_, _, _, _)
OpenStreamsFromBack(avail, q, acc, files) ==
    IF avail >= MergeInBufSize /\ q # <<>>
    THEN LET id == q[Len(q)]
             ps == ParserCtorInt(files[id], MergeInBufSize)
         IN  OpenStreamsFromBack(avail - MergeInBufSize, SubSeq(q, 1, Len(q) - 1),
                         IF ps.hd_valid THEN Append(acc, [id |-> id, ps |-> ps])
                         ELSE acc,
                         files)
    ELSE [q |-> q, streams |-> acc]

\* The loop that pops runs and opens a parser on each, while a buffer of
\* input_buf_size is left; a parser without a first header is dropped.
RECURSIVE OpenStreams(_, _, _, _)
OpenStreams(avail, q, acc, files) ==
    IF avail >= MergeInBufSize /\ q # <<>>
    THEN LET id == Head(q)
             ps == ParserCtorInt(files[id], MergeInBufSize)
         IN  OpenStreams(avail - MergeInBufSize, Tail(q),
                         IF ps.hd_valid THEN Append(acc, [id |-> id, ps |-> ps])
                         ELSE acc,
                         files)
    ELSE [q |-> q, streams |-> acc]

\* Mutant: the output buffer is not carved off the arena.
MergeAvailWholeArena == arena

\* available_mem after split_at(40 * MiB, output_buf_mem, available_mem)
MergeAvail == arena - Min(MergeOutBufSize, arena)

\* Mutant: the pass is taken for the final one while a run is still queued.
IsFinalPassOneLeft(q) == Len(q) <= 1

\* bool is_final = transient_files.empty(), q the queue after the pops.
IsFinalPass(q) == q = <<>>

\* One pass of the while loop up to make_heap.
MergeOpen ==
    /\ pc = "mtop"
    /\ transient_files # <<>>
    /\ LET o == OpenStreams(MergeAvail, transient_files, <<>>, tmp)
       IN  /\ input_streams' = o.streams
           /\ merger' = [i \in 1..Len(o.streams) |-> i]
           /\ IF IsFinalPass(o.q)
              THEN /\ out' = [open |-> TRUE, id |-> 0, final |-> TRUE]
                   /\ dest' = [exists |-> TRUE, items |-> <<>>]
                   /\ transient_files' = o.q
                   /\ tmp' = tmp
              ELSE /\ Len(tmp) < MaxTmp
                   /\ out' = [open |-> TRUE, id |-> NewTmpId, final |-> FALSE]
                   /\ tmp' = Append(tmp, EmptyFile)
                   /\ transient_files' = Append(o.q, NewTmpId)
                   /\ dest' = dest
           /\ tmpLive' = FilesLeft(tmpLive \cup (IF IsFinalPass(o.q) THEN {} ELSE {NewTmpId}),
                                  transient_files', input_streams', out')
    /\ pc' = "mloop"
    /\ UNCHANGED <<arena, seekable, input, cut, dest_auto_unlink, src_parser,
                   segment_no, membuf, error, peak, peak_seek>>

\* Mutant: the loop body runs once before the queue is tested, and opens the
\* destination as the output of a final pass.
MergeReturnOpensDest ==
    /\ pc = "mtop"
    /\ transient_files = <<>>
    /\ input_streams' = <<>>
    /\ merger' = <<>>
    /\ dest' = [exists |-> TRUE, items |-> <<>>]
    /\ tmpLive' = FilesLeft(tmpLive, <<>>, <<>>, NoOut)
    /\ pc' = "commit"
    /\ UNCHANGED <<arena, seekable, input, cut, dest_auto_unlink, tmp,
                   transient_files, src_parser, segment_no, membuf, out, error,
                   peak, peak_seek>>
\* merge_sorted returns: the queue is empty.
MergeReturn ==
    /\ pc = "mtop"
    /\ transient_files = <<>>
    /\ input_streams' = <<>>
    /\ merger' = <<>>
    /\ tmpLive' = FilesLeft(tmpLive, <<>>, <<>>, NoOut)
    /\ pc' = "commit"
    /\ UNCHANGED <<arena, seekable, input, cut, dest, dest_auto_unlink, tmp,
                   transient_files, src_parser, segment_no, membuf, out, error, peak, peak_seek>>

\* Mutant: the comparison the heap functions expect of a max-heap.
MergeLessAscending(a, b) == KeyCmp(a.hd.key, b.hd.key) <= 0

\* merge_element::operator<
MergeLess(a, b) == KeyCmp(a.hd.key, b.hd.key) >= 0

\* std::pop_heap: the positions of merger whose element may reach the back,
\* those that no other element is above in the order of operator<.
HeapTops(m, streams) ==
    {k \in 1..Len(m) :
        \A j \in 1..Len(m) : MergeLess(streams[m[j]].ps, streams[m[k]].ps)}

RemoveAt(sq, k) == [i \in 1..(Len(sq) - 1) |-> IF i < k THEN sq[i] ELSE sq[i + 1]]

\* One turn of the loop over the heap: pop, write the record, parse the
\* next header of its stream, push the stream back or drop it.
MergeStep ==
    /\ pc = "mloop"
    /\ merger # <<>>
    /\ \E k \in HeapTops(merger, input_streams) :
        LET x   == merger[k]
            st  == input_streams[x]
            f   == tmp[st.id]
            hd2 == st.ps.hd
            rb  == ReadBody(st.ps, f, MergeInBufSize, INT_SIZE, st.ps.body_left)
            inl == [len |-> rb.got, body |-> rb.body]
            p   == IntReadPos(rb.ps)
            gs  == IF HasItemAt(f, p) THEN {NoHd}
                   ELSE GarbageHds(Max(0, f.size - (p + INT_SIZE)))
        IN  \E g \in gs :
            LET pn == ParseNextInt(rb.ps, f, MergeInBufSize, g)
            IN  IF ~rb.ok THEN Throw("corrupt")
                ELSE IF out.final /\ ~ExportOk(hd2, Src, seekable)
                THEN Throw(IF seekable THEN "corrupt" ELSE "seek")
                ELSE /\ IF out.final
                        THEN /\ dest' = [dest EXCEPT !.items =
                                            Append(@, ExportRecord(hd2, inl, Src))]
                             /\ tmp' = tmp
                        ELSE /\ tmp' = [tmp EXCEPT ![out.id] =
                                            AppendInt(@, hd2, rb.got, rb.body)]
                             /\ dest' = dest
                     /\ input_streams' = [input_streams EXCEPT ![x].ps = pn]
                     /\ merger' = IF pn.hd_valid
                                  THEN Append(RemoveAt(merger, k), x)
                                  ELSE RemoveAt(merger, k)
                     /\ peak' = Max(peak, TempBytes(tmp', tmpLive))
                     /\ UNCHANGED <<pc, arena, seekable, input, cut,
                                    dest_auto_unlink, tmpLive, transient_files,
                                    src_parser, segment_no, membuf, out, error,
                                    peak_seek>>

\* The heap is empty: output.flush(), the output is closed.
MergeFlush ==
    /\ pc = "mloop"
    /\ merger = <<>>
    /\ out' = NoOut
    /\ tmpLive' = FilesLeft(tmpLive, transient_files, input_streams, NoOut)
    /\ pc' = "mtop"
    /\ UNCHANGED <<arena, seekable, input, cut, dest, dest_auto_unlink, tmp,
                   transient_files, src_parser, segment_no, membuf,
                   input_streams, merger, error, peak, peak_seek>>

(***************************************************************************)
(* main                                                                    *)
(***************************************************************************)
\* dest_file->set_auto_unlink(false); return EXIT_SUCCESS.
Commit ==
    /\ pc = "commit"
    /\ dest_auto_unlink' = FALSE
    /\ pc' = "done"
    /\ UNCHANGED <<arena, seekable, input, cut, dest, tmp, tmpLive, transient_files,
                   src_parser, segment_no, membuf, out, input_streams, merger, error, peak, peak_seek>>

\* An open, read, write, seek or fsync of split_and_sort or merge_sorted
\* fails: the file classes throw std::runtime_error.
IoError ==
    /\ pc \in {"split", "fill", "write", "merge", "mtop", "mloop"}
    /\ Throw("io")

Next ==
    \/ MainStart
    \/ SplitOpen
    \/ PassBegin
    \/ FillStep
    \/ SortStep
    \/ WriteRun
    \/ MergeEnter
    \/ MergeOpen
    \/ MergeReturn
    \/ MergeStep
    \/ MergeFlush
    \/ Commit
    \/ IoError

Spec == Init /\ [][Next]_vars

SpecTrunc == InitTrunc /\ [][Next]_vars

(***************************************************************************)
(* The sort of a regular file, then the sort of the same bytes read from a *)
(* pipe with the same arena: is_seekable() is false, threshold is -1 and   *)
(* no body is deferred.                                                    *)
(***************************************************************************)
InitPair == Init /\ seekable

Rerun ==
    /\ pc = "done"
    /\ seekable
    /\ peak_seek = -1
    /\ peak_seek' = peak
    /\ seekable' = FALSE
    /\ pc' = "main"
    /\ dest' = NoDest
    /\ tmp' = <<>>
    /\ peak' = 0
    /\ UNCHANGED <<arena, input, cut, dest_auto_unlink, tmpLive, transient_files,
                   src_parser, segment_no, membuf, out, input_streams, merger,
                   error>>

NextPair == Next \/ Rerun

SpecPair == InitPair /\ [][NextPair]_vars

(***************************************************************************)
(* Inputs whose records fill the workspace of a pass to the byte: bodies    *)
(* that fit exactly, and a byte more, alone and after a record that leaves  *)
(* the render buffer 63 bytes short of the alignment of a header, and the   *)
(* largest body that would fit there were no padding counted.               *)
(***************************************************************************)
FillArena == 90 * MiB
FillWorkspace == FillArena - InputBufSize - SortOutBufSize
FillSlack == HD2_ALIGNOF + HD2_SIZEOF + SORT_ELEMENT_SIZE
OddBody == HD2_ALIGNOF \div 2
AfterOdd == INT_SIZE + OddBody + SORT_ELEMENT_SIZE

FillKinds ==
    { <<<<1, 0>>, OddBody>>,
      <<<<0, 1>>, FillWorkspace - FillSlack>>,
      <<<<0, 0>>, FillWorkspace - FillSlack + 1>>,
      <<<<2, 0>>, FillWorkspace - FillSlack - AfterOdd>>,
      <<<<2, 1>>, FillWorkspace - FillSlack - AfterOdd + 1>>,
      <<<<1, 1>>, FillWorkspace - FillSlack - AfterOdd + HD2_ALIGNOF>> }

FillKindSeqs == UNION {[1..n -> FillKinds] : n \in 0..MaxRecs}

InitFill ==
    /\ \E ks \in FillKindSeqs : input = MkInput(ks)
    /\ arena = FillArena
    /\ seekable \in BOOLEAN
    /\ cut = 0
    /\ InitProcess

SpecFill == InitFill /\ [][Next]_vars

(***************************************************************************)
(* A regular file that takes two passes on an arena of 65 MiB, the least   *)
(* arena whose merge pass has room for an input buffer: one record whose   *)
(* body stays in the source, of the least or of the greatest key, and      *)
(* records with bodies a byte under the threshold that fill one workspace  *)
(* and a bit.  The first merge pass reads the first run and is not final.  *)
(* Inputs of a single record are sorted in one pass.                       *)
(***************************************************************************)
LongArena == MergeOutBufSize + MergeInBufSize
LongWorkspace == LongArena - InputBufSize - SortOutBufSize
FillerBody == DeferThreshold - 1
FillerCount == LongWorkspace \div MiB
DeferredKinds ==
    { <<<<0, 0>>, DeferThreshold>>, <<<<0, 0>>, MaxBodySize>>,
      <<<<FillerCount + 2, 0>>, DeferThreshold>> }

\* The record of kind k followed by n fillers of ascending keys.
LongInput(k, n) ==
    [i \in 1..(n + 1) |->
        IF i = 1
        THEN [key |-> k[1], flags |-> 1, crc |-> 7, body_size |-> k[2],
              body |-> <<1>>]
        ELSE [key |-> <<i, 0>>, flags |-> i, crc |-> 7, body_size |-> FillerBody,
              body |-> <<i>>]]

InitLong ==
    /\ \E k \in DeferredKinds : \E n \in {0, FillerCount} : input = LongInput(k, n)
    /\ arena = LongArena
    /\ seekable = TRUE
    /\ cut = 0
    /\ InitProcess

SpecLong == InitLong /\ [][Next]_vars

(***************************************************************************)
(* The fill loop of a pass on an arena of gigabytes.  Sizes and addresses   *)
(* of this specification are counted in units of 16 bytes, the size of a    *)
(* sort element, so that 8 GiB is a number the checker can hold: arena and  *)
(* membuf.dend are in units, and so are the addresses of the records.  The  *)
(* source is a pipe that delivers records of one body size, 15 modulo 16,   *)
(* so that a header and its body are a whole number of units.               *)
(***************************************************************************)
Unit == SORT_ELEMENT_SIZE
GiBUnits == (1024 * MiB) \div Unit
DefaultArena == 8 * GiBUnits              \* get_available_mem_size: 8 * GiB
OffsetRange == 4 * GiBUnits               \* uint32_t offset: 2^32 bytes
BigArenas == {2 * GiBUnits, 4 * GiBUnits, DefaultArena}
BigBodies == {64 * MiB - 1, 100 * MiB - 1}

BigMembufBase == (InputBufSize + SortOutBufSize) \div Unit
BigMembufSize == arena - BigMembufBase

\* The test that ends the fill loop, for a free size in units.
NoRoomUnits(available_units, body_sz, count) ==
    available_units < (HD2_ALIGNOF + HD2_SIZEOF + body_sz
                         + (count + 1) * SORT_ELEMENT_SIZE + Unit - 1) \div Unit

\* sort_element::init for an address in units: i.offset = p - base, stored
\* in 32 bits.
SortElementInit32(hd, addr) == [prefix |-> hd.key[1], offset |-> addr % OffsetRange]

InitBig ==
    /\ arena \in BigArenas
    /\ \E b \in BigBodies : input = MkInput(<< <<<<0, 0>>, b>> >>)
    /\ seekable = FALSE
    /\ cut = 0
    /\ pc = "bigfill"
    /\ dest = NoDest
    /\ dest_auto_unlink = TRUE
    /\ tmp = <<>>
    /\ tmpLive = {}
    /\ transient_files = <<>>
    /\ src_parser = ParserInit
    /\ segment_no = 0
    /\ membuf = EmptyMembuf
    /\ out = NoOut
    /\ input_streams = <<>>
    /\ merger = <<>>
    /\ error = "none"
    /\ peak = 0
    /\ peak_seek = -1

\* One turn of the while loop that fills the workspace: the record of the
\* pipe fits, it is stored and a sort element is initialised from it.
BigFillStep ==
    /\ pc = "bigfill"
    /\ LET hd   == [NoHd EXCEPT !.body_size = input[1].body_size,
                                !.flags = Len(membuf.recs) + 1,
                                !.is_body_present = 1]
           d1   == membuf.dend + AlignPad(membuf.dend, HD2_ALIGNOF \div Unit)
           addr == BigMembufBase + d1
       IN  /\ ~NoRoomUnits(BigMembufSize - membuf.dend, hd.body_size,
                           Len(membuf.elems))
           /\ membuf' = [dend  |-> d1 + (INT_SIZE + hd.body_size) \div Unit,
                         recs  |-> Append(membuf.recs, [addr |-> addr, hd |-> hd]),
                         elems |-> <<SortElementInit32(hd, addr)>> \o membuf.elems]
    /\ UNCHANGED <<pc, arena, seekable, input, cut, dest, dest_auto_unlink, tmp,
                   tmpLive, transient_files, src_parser, segment_no, out,
                   input_streams, merger, error, peak, peak_seek>>

\* The record does not fit: the loop ends and std::sort is reached.
BigFillEnd ==
    /\ pc = "bigfill"
    /\ NoRoomUnits(BigMembufSize - membuf.dend, input[1].body_size,
                   Len(membuf.elems))
    /\ pc' = "bigsort"
    /\ UNCHANGED <<arena, seekable, input, cut, dest, dest_auto_unlink, tmp,
                   tmpLive, transient_files, src_parser, segment_no, membuf, out,
                   input_streams, merger, error, peak, peak_seek>>

NextBig == BigFillStep \/ BigFillEnd

SpecBig == InitBig /\ [][NextBig]_vars

(***************************************************************************)
(* render_buf over a file.  fpos is the position of the file handle (the   *)
(* bytes written), dbeg the address of data.begin() counted from           *)
(* mem.begin(), a multiple of ALIGNMENT_MAX, dsize the size of data.       *)
(* A byte is named by its place in the stream of the bytes the caller      *)
(* hands over, the zero bytes of skip included: total counts them, data    *)
(* and file tell which of them the buffer and the file hold, in their      *)
(* order, as a sequence of segments [from, len] of that stream.            *)
(***************************************************************************)
RB_Init == [fpos |-> 0, dbeg |-> 0, dsize |-> 0, total |-> 0,
            data |-> <<>>, file |-> <<>>]

\* mem_chunk::append, output_file::write: the bytes of seg after those of
\* sq.  Two segments that follow each other in the stream are one.
AppendSeg(sq, seg) ==
    IF seg.len = 0 THEN sq
    ELSE IF sq # <<>> /\ sq[Len(sq)].from + sq[Len(sq)].len = seg.from
    THEN [sq EXCEPT ![Len(sq)].len = @ + seg.len]
    ELSE Append(sq, seg)

RECURSIVE CatSegs(_, _)
CatSegs(a, b) == IF b = <<>> THEN a ELSE CatSegs(AppendSeg(a, Head(b)), Tail(b))

\* render_buf::get_file_pos
RB_Pos(rb) == rb.fpos + rb.dsize

\* render_buf::get_free_mem: the buffer after the call and the size of the
\* chunk returned.
\* Mutant: the full buffer is emptied and not written to the file.
RB_GetFreeMemNoWrite(rb, msize) ==
    LET free == msize - Min(rb.dbeg + rb.dsize, msize)
    IN  IF free = 0
        THEN [rb |-> [rb EXCEPT !.dbeg = 0, !.dsize = 0, !.data = <<>>],
              free |-> msize]
        ELSE [rb |-> rb, free |-> free]
RB_GetFreeMem(rb, msize) ==
    LET free == msize - Min(rb.dbeg + rb.dsize, msize)
    IN  IF free = 0
        THEN [rb |-> [rb EXCEPT !.fpos = @ + rb.dsize, !.dbeg = 0, !.dsize = 0,
                                !.file = CatSegs(@, rb.data), !.data = <<>>],
              free |-> msize]
        ELSE [rb |-> rb, free |-> free]

\* render_buf::write of n bytes.
RECURSIVE RB_Write(_, _, _)
RB_Write(rb, n, msize) ==
    IF n = 0 THEN rb
    ELSE LET fm == RB_GetFreeMem(rb, msize)
             portion == Min(n, fm.free)
         IN  RB_Write([fm.rb EXCEPT
                          !.dsize = @ + portion,
                          !.data = AppendSeg(@, [from |-> rb.total, len |-> portion]),
                          !.total = @ + portion],
                      n - portion, msize)

\* render_buf::write of n > 0 bytes: the address it returns, origin as the
\* last turn of the loop has set it.
RECURSIVE RB_WriteOrigin(_, _, _)
RB_WriteOrigin(rb, n, msize) ==
    LET fm == RB_GetFreeMem(rb, msize)
        origin == fm.rb.dbeg + fm.rb.dsize
        portion == Min(n, fm.free)
    IN  IF n - portion = 0 THEN origin
        ELSE RB_WriteOrigin([fm.rb EXCEPT !.dsize = @ + portion], n - portion, msize)

\* render_buf::skip: n zero bytes, written a free chunk at a time.
RB_Skip(rb, n, msize) == RB_Write(rb, n, msize)

\* render_buf::align
RB_Align(rb, n, msize) ==
    RB_Skip(rb, AlignPad((rb.dbeg + rb.dsize) % ALIGNMENT_MAX, n), msize)

\* render_buf::put<T>
RB_Put(rb, alignment, size, msize) ==
    RB_Write(IF alignment # 1 THEN RB_Align(rb, alignment, msize) ELSE rb,
             size, msize)
\* The address render_buf::put<T> returns.
RB_PutOrigin(rb, alignment, size, msize) ==
    RB_WriteOrigin(IF alignment # 1 THEN RB_Align(rb, alignment, msize) ELSE rb,
                   size, msize)

\* render_buf::flush
RB_Flush(rb) ==
    [rb EXCEPT !.fpos = @ + rb.dsize, !.dbeg = @ + rb.dsize, !.dsize = 0,
               !.file = CatSegs(@, rb.data), !.data = <<>>]

(***************************************************************************)
(* A client of parser and render_buf that copies a record stream the way   *)
(* merge_element does, a call at a time: put of a header (pc "copyhd"),     *)
(* read_body into the free memory of the output and write of the chunk     *)
(* (pc "copy"), parse_next (at any moment, on an exhausted parser too, pc  *)
(* "copyend"), flush between two records.  The client reads the   *)
(* source through parser<record_header2, record_header> (input_streams is  *)
(* empty), or the run file tmp[1], which holds the records of the input,   *)
(* through parser<record_header2>.  Each buffer is a half of the arena.    *)
(* segment_no counts the calls of parse_next on the exhausted parser.      *)
(* out holds the render_buf of the output too, and origin, the address     *)
(* the last put or write returned.                                         *)
(***************************************************************************)
MaxCopyRecs == 2
MaxPastEnd == 2
CopyKinds ==
    { <<<<0, 0>>, 0>>,
      <<<<0, 1>>, 7>>,
      <<<<1, 0>>, ALIGNMENT_MAX - HD2_SIZEOF>>,
      <<<<1, 1>>, 3 * ALIGNMENT_MAX + 5>>,
      <<<<2, 0>>, DeferThreshold>> }
CopyKindSeqs == UNION {[1..n -> CopyKinds] : n \in 0..MaxCopyRecs}
CopyArenas == {2 * ALIGNMENT_MAX, 2 * InputBufSize}
CopyMemSize == arena \div 2

\* The run file that holds the records of the input in the order of the
\* input, as split_and_sort stores them.
RECURSIVE RunOf(_, _, _)
RunOf(f, src, i) ==
    IF i > Len(src.items) THEN f
    ELSE LET hd == StoredHd(parse_header(src.items[i].hd,
                                         src.items[i].off + EXT_SIZE), seekable)
             n  == FillBodySz(hd)
         IN  RunOf(AppendInt(f, hd, n, IF n = 0 THEN EmptyBody ELSE src.items[i].body),
                   src, i + 1)

CopyFromRun == input_streams # <<>>
CopyPs == IF CopyFromRun THEN input_streams[1].ps ELSE src_parser
CopyFile == IF CopyFromRun THEN tmp[1] ELSE Src
CopyHdSize == IF CopyFromRun THEN INT_SIZE ELSE EXT_SIZE

InitCopy ==
    /\ \E ks \in CopyKindSeqs : input = MkInput(ks)
    /\ arena \in CopyArenas
    /\ seekable \in BOOLEAN
    /\ cut = 0
    /\ \E fromRun \in BOOLEAN :
          IF fromRun
          THEN /\ tmp = <<RunOf(EmptyFile, Src, 1)>>
               /\ input_streams = <<[id |-> 1, ps |-> ParserCtorInt(tmp[1], CopyMemSize)]>>
               /\ src_parser = ParserInit
          ELSE /\ tmp = <<>>
               /\ input_streams = <<>>
               /\ src_parser = ParserCtorExt(Src, CopyMemSize, seekable).ps
    /\ \E final \in BOOLEAN :
          out = [open |-> TRUE, id |-> 0, final |-> final,
                 fpos |-> 0, dbeg |-> 0, dsize |-> 0, total |-> 0,
                 data |-> <<>>, file |-> <<>>, origin |-> -1]
    /\ pc = IF CopyPs.hd_valid THEN "copyhd" ELSE "copyend"
    /\ dest = NoDest
    /\ dest_auto_unlink = TRUE
    /\ tmpLive = {}
    /\ transient_files = <<>>
    /\ segment_no = 0
    /\ membuf = EmptyMembuf
    /\ merger = <<>>
    /\ error = "none"
    /\ peak = 0
    /\ peak_seek = -1

CopySetPs(ps) ==
    IF CopyFromRun
    THEN input_streams' = [input_streams EXCEPT ![1].ps = ps] /\ UNCHANGED src_parser
    ELSE src_parser' = ps /\ UNCHANGED input_streams

\* output.put(header): record_header2 for a run, record_header for the
\* destination.
CopyPut ==
    /\ pc = "copyhd"
    /\ out' = IF out.final
              THEN [RB_Put(out, 1, EXT_SIZE, CopyMemSize) EXCEPT
                       !.origin = RB_PutOrigin(out, 1, EXT_SIZE, CopyMemSize)]
              ELSE [RB_Put(out, INT_ALIGNMENT, INT_SIZE, CopyMemSize) EXCEPT
                       !.origin = RB_PutOrigin(out, INT_ALIGNMENT, INT_SIZE,
                                               CopyMemSize)]
    /\ pc' = "copy"
    /\ UNCHANGED <<arena, seekable, input, cut, dest, dest_auto_unlink, tmp,
                   tmpLive, transient_files, src_parser, segment_no, membuf,
                   input_streams, merger, error, peak, peak_seek>>

\* One turn of copy_inline_body: buf = output.get_free_mem(); if
\* read_body(buf) then output.write(buf).
CopyRead ==
    /\ pc = "copy"
    /\ LET fm == RB_GetFreeMem(out, CopyMemSize)
           rb == ReadBody(CopyPs, CopyFile, CopyMemSize, CopyHdSize, fm.free)
       IN  IF ~rb.ok
           THEN /\ pc' = "failed"
                /\ error' = "corrupt"
                /\ UNCHANGED <<out, src_parser, input_streams>>
           ELSE /\ out' = IF rb.more
                          THEN [RB_Write(fm.rb, rb.got, CopyMemSize) EXCEPT
                                   !.origin = RB_WriteOrigin(fm.rb, rb.got,
                                                             CopyMemSize)]
                          ELSE fm.rb
                /\ CopySetPs(rb.ps)
                /\ UNCHANGED <<pc, error>>
    /\ UNCHANGED <<arena, seekable, input, cut, dest, dest_auto_unlink, tmp,
                   tmpLive, transient_files, segment_no, membuf, merger, peak,
                   peak_seek>>

\* parse_next, whatever part of the body was read, on an exhausted parser
\* too.
CopyNext ==
    /\ pc \in {"copyhd", "copy", "copyend"}
    /\ pc = "copyend" => segment_no < MaxPastEnd
    /\ LET ps == CopyPs
           p  == IntReadPos(ps)
           gs == IF CopyFromRun /\ ~HasItemAt(CopyFile, p)
                 THEN GarbageHds(Max(0, CopyFile.size - (p + INT_SIZE)))
                 ELSE {NoHd}
       IN  \E g \in gs :
           LET pn == IF CopyFromRun
                     THEN [ps |-> ParseNextInt(ps, CopyFile, CopyMemSize, g),
                           err |-> "none"]
                     ELSE ParseNextExt(ps, CopyFile, CopyMemSize, seekable)
           IN  IF pn.err # "none"
               THEN /\ pc' = "failed"
                    /\ error' = pn.err
                    /\ UNCHANGED <<src_parser, input_streams, segment_no>>
               ELSE /\ CopySetPs(pn.ps)
                    /\ pc' = IF pn.ps.hd_valid THEN "copyhd" ELSE "copyend"
                    /\ segment_no' = IF pc = "copyend" THEN segment_no + 1
                                     ELSE segment_no
                    /\ UNCHANGED error
    /\ UNCHANGED <<arena, seekable, input, cut, dest, dest_auto_unlink, tmp,
                   tmpLive, transient_files, membuf, out, merger, peak, peak_seek>>

\* output.flush()
CopyFlush ==
    /\ pc \in {"copyhd", "copyend"}
    /\ out.dsize > 0
    /\ out' = RB_Flush(out)
    /\ UNCHANGED <<pc, arena, seekable, input, cut, dest, dest_auto_unlink, tmp,
                   tmpLive, transient_files, src_parser, segment_no, membuf,
                   input_streams, merger, error, peak, peak_seek>>

NextCopy == CopyPut \/ CopyRead \/ CopyNext \/ CopyFlush

SpecCopy == InitCopy /\ [][NextCopy]_vars

(***************************************************************************)
(* The calls on files that the output loop of a pass of split_and_sort     *)
(* makes, in the order it makes them: "write" is output_file::write on the *)
(* output of the pass, "read" input_file::read on input2, "fsync"          *)
(* output_file::flush.  A state is the render buffer and the calls so far. *)
(***************************************************************************)
\* A call on the render buffer: "write" is recorded when it wrote the file.
RanOn(st, rb) ==
    [rb |-> rb,
     ev |-> IF rb.fpos # st.rb.fpos THEN Append(st.ev, "write") ELSE st.ev]

\* export_record: the loop that copies sz bytes of a body from input2, a
\* free chunk of the output at a time.
RECURSIVE FetchBody(_, _, _)
FetchBody(st, sz, msize) ==
    LET fm   == RB_GetFreeMem(st.rb, msize)
        got  == RanOn(st, fm.rb)
        n    == Min(sz, fm.free)
    IN  IF sz = 0 \/ n = 0 THEN st
        ELSE FetchBody([rb |-> RB_Write(fm.rb, n, msize),
                        ev |-> Append(got.ev, "read")], sz - n, msize)

\* Mutant: export_record fetches a body for every header.
FetchesBodyAlways(final, hd2) == final
\* split_and_sort calls export_record in the final pass only; export_record
\* reads input2 for a header without body.
FetchesBody(final, hd2) == final /\ hd2.is_body_present = 0

\* One turn of the output loop.
OutputRecord(st, hd2, blen, final, msize) ==
    LET hd  == RanOn(st, IF final THEN RB_Put(st.rb, 1, EXT_SIZE, msize)
                         ELSE RB_Put(st.rb, INT_ALIGNMENT, INT_SIZE, msize))
        bd  == IF FetchesBody(final, hd2)
               THEN FetchBody(hd, hd2.body_size, msize) ELSE hd
    IN  RanOn(bd, RB_Write(bd.rb, blen, msize))

RECURSIVE OutputLoop(_, _, _, _, _, _)
OutputLoop(st, elems, recs, i, final, msize) ==
    IF i > Len(elems) THEN st
    ELSE OutputLoop(OutputRecord(st, get_header(elems[i], recs),
                                 get_body(elems[i], recs).len, final, msize),
                    elems, recs, i + 1, final, msize)

\* The output loop and output.flush().
OutputCalls(elems, recs, final, msize) ==
    LET st == OutputLoop([rb |-> RB_Init, ev |-> <<>>], elems, recs, 1, final,
                         msize)
    IN  RanOn(st, RB_Flush(st.rb)).ev \o <<"fsync">>

\* The calls of the output loop of the pass that is about to write.
PassOutputCalls ==
    OutputCalls(membuf.elems, membuf.recs, out.final, SortOutMemSize)

(***************************************************************************)
(* Properties.                                                             *)
(***************************************************************************)
Sorted(items) ==
    \A i \in 1..(Len(items) - 1) : KeyCmp(items[i].key, items[i + 1].key) <= 0

Count(sq, r) == Cardinality({i \in 1..Len(sq) : sq[i] = r})
SameMultiset(a, b) ==
    \A r \in Range(a) \cup Range(b) : Count(a, r) = Count(b, r)

IsInputRecord(hd) ==
    /\ hd.flags \in 1..Len(input)
    /\ export_header(hd) = Src.items[hd.flags].hd

\* C1: after a successful sort every adjacent pair of records of the
\* destination is in key order.
C1_Sorted == pc = "done" => Sorted(dest.items)

\* C2: after a successful sort the destination holds the records of the
\* input, each as many times as the input does, with header fields and
\* body bytes unchanged.
C2_SameMultiset == pc = "done" => SameMultiset(dest.items, input)

\* C3: widening an external header with parse_header and converting it back
\* with export_record gives the key, flags, crc and body_size of the header
\* that was read, for every header of the input at every position, and for
\* the header the parser of the source holds.
C3_HeaderRoundTrip ==
    /\ \A i \in 1..Len(input) :
          \A pos \in {0, Src.items[i].off + EXT_SIZE} :
             export_header(parse_header(Src.items[i].hd, pos)) = Src.items[i].hd
    /\ src_parser.hd_valid => IsInputRecord(src_parser.hd)
    /\ \A k \in 1..Len(membuf.recs) : IsInputRecord(membuf.recs[k].hd)

C3_Witness ==
    /\ pc = "done"
    /\ Len(dest.items) = 3
    /\ \A k \in 1..3 : \E i \in 1..3 :
          [key |-> dest.items[k].key, flags |-> dest.items[k].flags,
           crc |-> dest.items[k].crc, body_size |-> dest.items[k].body_size]
             = Src.items[i].hd

\* C4: a record stored without its body carries in body_pos the offset of
\* the first byte of its body in the input, and the body the destination
\* holds for a record whose body was left in the input is the body_size
\* bytes of the input at that offset.
C4_DeferredBody ==
    /\ \A k \in 1..Len(membuf.recs) :
          LET hd == membuf.recs[k].hd
          IN  hd.is_body_present = 0 =>
                 /\ hd.flags \in 1..Len(input)
                 /\ hd.body_pos = Src.items[hd.flags].off + EXT_SIZE
    /\ \A k \in 1..Len(dest.items) :
          LET d == dest.items[k]
          IN  ShouldDefer(d.body_size, seekable) /\ d.flags \in 1..Len(input) =>
                 d.body = input[d.flags].body

C4_Witness ==
    /\ pc = "done"
    /\ seekable
    /\ Len(dest.items) = 3
    /\ \E k \in 1..3 : /\ dest.items[k].body_size = DeferThreshold
                       /\ dest.items[k].body = input[dest.items[k].flags].body
    /\ \E k \in 1..3 : /\ dest.items[k].body_size = MaxBodySize
                       /\ dest.items[k].body = input[dest.items[k].flags].body

\* C5: auto-unlink of the destination is on from the start of split_and_sort
\* to the return of merge_sorted; it is switched on by main before
\* split_and_sort and switched off only by main after merge_sorted returned.
C5_FlagOnDuringSort ==
    pc \in {"split", "pass", "fill", "write", "merge", "mtop", "mloop", "commit"}
        => dest_auto_unlink
C5_CommitProtocol ==
    /\ []C5_FlagOnDuringSort
    /\ [][dest_auto_unlink' # dest_auto_unlink =>
             \/ pc = "main" /\ pc' = "split" /\ dest_auto_unlink'
             \/ pc = "commit" /\ pc' = "done" /\ ~dest_auto_unlink']_vars

C5_Witness == pc = "done" /\ ~dest_auto_unlink /\ dest.exists /\ Len(tmp) >= 2

\* C6: when the program has exited after a failure of split_and_sort or
\* merge_sorted, the destination does not exist and no temporary file the
\* process created exists.
C6_FailureCleanup == pc = "failed" => ~dest.exists /\ tmpLive = {}

C6_Witness == pc = "failed" /\ error = "io" /\ Len(tmp) >= 3

\* C7: after a successful sort no temporary file exists; the files of the
\* queue and the files a parser still reads exist.
C7_TempCleanup ==
    /\ pc = "done" => tmpLive = {}
    /\ Range(transient_files) \subseteq tmpLive
    /\ \A i \in 1..Len(input_streams) :
          input_streams[i].ps.hd_valid => input_streams[i].id \in tmpLive

C7_Witness == pc = "done" /\ Len(tmp) >= 3 /\ Len(dest.items) = 3

\* C8: every pass of merge_sorted leaves the queue shorter than it found it.
C8_QueueShrinks ==
    [][pc = "mtop" /\ pc' = "mloop" =>
          Len(transient_files') < Len(transient_files)]_vars

\* C9: a pass of split_and_sort that starts on a valid header stores at
\* least one record, and there are no more passes than records.
C9_PassStoresRecord ==
    /\ pc = "write" /\ src_parser.hd_valid => membuf.elems # <<>>
    /\ segment_no <= Len(input)

\* C10: the parser of the source delivers no header whose body_size exceeds
\* 100 MiB and never gets past one; "Malformed data" is raised for such a
\* header only, so that a body_size of 100 MiB is accepted; the failure
\* leaves no destination.
C10_BodySizeLimit ==
    /\ src_parser.hd_valid => src_parser.hd.body_size <= MaxBodySize
    /\ \A i \in 1..Len(input) :
          input[i].body_size > MaxBodySize =>
             PB_Pos(src_parser.pb) < Src.items[i].off + EXT_SIZE
    /\ pc = "failed" /\ error = "malformed" =>
          /\ \E i \in 1..Len(input) : input[i].body_size > MaxBodySize
          /\ ~dest.exists

C10_Witness ==
    /\ pc = "failed"
    /\ error = "malformed"
    /\ Len(input) = 2
    /\ input[1].body_size = MaxBodySize
    /\ input[2].body_size = MaxBodySize + 1

\* C11: a source that ends inside a header or inside a body is never sorted
\* with success: the end of the file is taken for the end of the records
\* only at a record boundary, anything else is the error "Data corrupt".
\* (An arena of no bytes reads nothing at all and is left to C2.)
C11_EofMidRecord == pc = "done" /\ arena # 0 => cut = 0

\* C12: the sort of a file that is in key order, records of equal keys
\* included, gives a destination with the same records in the same order.
\* (An arena of no bytes is left to C2.)
C12_Idempotent ==
    pc = "done" /\ arena # 0 /\ Sorted(input) => dest.items = input

\* Both sorts of the pair are over: the file was sorted with deferral, then
\* without, and it holds a record with a body above 1 MiB.
C13_BothSorted ==
    /\ pc = "done"
    /\ peak_seek # -1
    /\ \E i \in 1..Len(input) : input[i].body_size > DeferThreshold

C14_ShortCircuit ==
    /\ pc = "write" =>
          /\ out.final <=> (segment_no = 0 /\ ~src_parser.hd_valid)
          /\ out.final => transient_files = <<>> /\ dest.exists
          /\ ~out.final =>
                /\ Len(transient_files) = segment_no + 1
                /\ transient_files[Len(transient_files)] = out.id
                /\ tmp[out.id] = EmptyFile
                /\ ~dest.exists
    /\ pc \in {"pass", "fill"} =>
          /\ Len(transient_files) = segment_no
          /\ ~dest.exists
    /\ pc = "merge" => (dest.exists <=> transient_files = <<>>)

C14_Witness ==
    /\ pc = "merge"
    /\ Len(transient_files) = 3
    /\ \A i \in 1..3 : Len(tmp[transient_files[i]].items) = 1
    /\ ~dest.exists

\* C15: merge_sorted entered with an empty queue (no stream was opened by
\* it) returns without touching the destination, without creating or
\* removing a temporary file, and the queue stays empty.
C15_EmptyQueueNoEffect ==
    [][(/\ pc \in {"merge", "mtop"}
        /\ transient_files = <<>>
        /\ input_streams = <<>>
        /\ pc' # "failed") =>
          /\ pc' \in {"mtop", "commit"}
          /\ dest' = dest
          /\ tmp' = tmp
          /\ tmpLive' = tmpLive
          /\ transient_files' = <<>>]_vars

C15_Witness ==
    /\ pc = "commit"
    /\ tmp = <<>>
    /\ Len(dest.items) = 3
    /\ dest.items[1].body_size = MaxBodySize

\* The stream a turn of the merge loop popped: the one whose parser moved.
Popped(x) == x \in 1..Len(input_streams) /\ input_streams'[x] # input_streams[x]

\* The key of the record last written to the output of the merge pass.
LastWrittenKey ==
    IF out.final THEN dest'.items[Len(dest'.items)].key
    ELSE tmp'[out.id].items[Len(tmp'[out.id].items)].hd.key

C16_HeapHoldsLiveStreams ==
    pc = "mloop" =>
        /\ \A j \in 1..Len(merger) :
              /\ merger[j] \in 1..Len(input_streams)
              /\ input_streams[merger[j]].ps.hd_valid
        /\ \A i, j \in 1..Len(merger) : merger[i] = merger[j] => i = j

RunAscending(f) ==
    \A i \in 1..(Len(f.items) - 1) :
        KeyCmp(f.items[i].hd.key, f.items[i + 1].hd.key) <= 0

\* C17: when a merge pass is about to open its runs, every run in the queue
\* is a sequence of internal records in ascending key order.
C17_RunsAscending ==
    pc = "mtop" => \A i \in 1..Len(transient_files) :
                       RunAscending(tmp[transient_files[i]])

ExtFields == {"key", "flags", "crc", "body_size", "body"}
IntHdFields == {"key", "flags", "crc", "body_size", "body_pos", "is_body_present"}

\* The runs left in the queue by the pops of a pass that begins: the queue
\* after the pops is these runs, followed by the output run when there is one.
LeftAfterPops(n) == SubSeq(transient_files, Len(transient_files) - n + 1,
                           Len(transient_files))

\* C18: a merge pass is final iff the queue is empty after its pops.  A
\* final pass opens the destination and every record it writes goes there in
\* the external format, to no temporary file.  Any other pass creates a fresh
\* temporary file, appends it to the queue before a record is written, writes
\* internal records to it and does not touch the destination.
C18_FinalIffQueueEmpty ==
    [][/\ pc = "mtop" /\ pc' = "mloop" =>
            /\ out'.final =>
                  /\ transient_files' = <<>>
                  /\ dest' = [exists |-> TRUE, items |-> <<>>]
                  /\ tmp' = tmp
            /\ ~out'.final =>
                  /\ Len(transient_files') >= 2
                  /\ transient_files' =
                        Append(LeftAfterPops(Len(transient_files') - 1), out'.id)
                  /\ out'.id \notin 1..Len(tmp)
                  /\ tmp' = Append(tmp, EmptyFile)
                  /\ out'.id = Len(tmp')
                  /\ dest' = dest
                  /\ ~dest.exists
       /\ pc = "mloop" /\ pc' = "mloop" =>
            /\ out.final =>
                  /\ tmp' = tmp
                  /\ Len(dest'.items) = Len(dest.items) + 1
                  /\ SubSeq(dest'.items, 1, Len(dest.items)) = dest.items
                  /\ DOMAIN dest'.items[Len(dest'.items)] = ExtFields
            /\ ~out.final =>
                  /\ dest' = dest
                  /\ \A id \in 1..Len(tmp) : id # out.id => tmp'[id] = tmp[id]
                  /\ Len(tmp'[out.id].items) = Len(tmp[out.id].items) + 1
                  /\ DOMAIN tmp'[out.id].items[Len(tmp'[out.id].items)].hd = IntHdFields
                  /\ transient_files' = transient_files]_vars

C18_Witness ==
    /\ pc = "mtop"
    /\ transient_files = <<>>
    /\ Len(tmp) = 4
    /\ Len(tmp[4].items) = 2
    /\ Len(dest.items) = 3

\* C19: the queue is first in, first out.  A run is queued at the back (by
\* the run former and by a merge pass alike), so the queue is in order of
\* creation; a pass takes its runs from the front, oldest first, and none of
\* its input streams is the run it writes.
C19_Fifo ==
    [][/\ \A i, j \in 1..Len(transient_files) :
              i < j => transient_files[i] < transient_files[j]
       /\ (pc \in {"pass", "fill", "sort"} /\ pc' # "failed"
              /\ transient_files' # transient_files) =>
            /\ tmp' = Append(tmp, EmptyFile)
            /\ transient_files' = Append(transient_files, Len(tmp'))
       /\ pc = "mtop" /\ pc' = "mloop" =>
            LET n      == Len(transient_files') - (IF out'.final THEN 0 ELSE 1)
                popped == SubSeq(transient_files, 1, Len(transient_files) - n)
            IN  /\ n \in 0..Len(transient_files)
                /\ SubSeq(transient_files', 1, n) = LeftAfterPops(n)
                /\ \A x \in 1..Len(input_streams') :
                      /\ input_streams'[x].id \in Range(popped)
                      /\ ~out'.final => input_streams'[x].id # out'.id
                /\ \A x, y \in 1..Len(input_streams') :
                      x < y => input_streams'[x].id < input_streams'[y].id
                /\ \A i \in 1..Len(popped) :
                      (\E x \in 1..Len(input_streams') :
                          input_streams'[x].id = popped[i])
                      \/ tmp[popped[i]].items = <<>>
       /\ pc = "mloop" /\ ~out.final =>
            \A x \in 1..Len(input_streams) : input_streams[x].id # out.id]_vars

C19_Witness ==
    /\ pc = "mloop"
    /\ ~out.final
    /\ Len(input_streams) = 2
    /\ input_streams[1].id = 1
    /\ input_streams[2].id = 2
    /\ transient_files = <<3, 4>>
    /\ Len(tmp[4].items) = 1

\* The number of runs the pass that begins pops from the queue.
PoppedCount ==
    Len(transient_files) - (Len(transient_files') - (IF out'.final THEN 0 ELSE 1))

\* C20 as stated: a merge pass pops min(queue length, floor((arena - 40 MiB)
\* / 25 MiB)) runs.  The quotient is negative for an arena under 40 MiB.
C20_FanInCapAsStated ==
    [][pc = "mtop" /\ pc' = "mloop" =>
          /\ PoppedCount = Min(Len(transient_files),
                               (arena - MergeOutBufSize) \div MergeInBufSize)
          /\ PoppedCount <= (arena - MergeOutBufSize) \div MergeInBufSize]_vars

\* C20: a merge pass pops min(queue length, floor(max(0, arena - 40 MiB) /
\* 25 MiB)) runs, never more than that quotient, and opens a stream on
\* no other run.
C20_FanInCap ==
    [][pc = "mtop" /\ pc' = "mloop" =>
          LET cap == Max(0, arena - MergeOutBufSize) \div MergeInBufSize
          IN  /\ PoppedCount = Min(Len(transient_files), cap)
              /\ PoppedCount <= cap
              /\ Len(input_streams') <= PoppedCount]_vars

C20_Witness ==
    /\ pc = "mloop"
    /\ arena = 90 * MiB
    /\ Len(input_streams) = 2
    /\ Len(transient_files) = 2
    /\ ~out.final
    /\ tmp[out.id] = EmptyFile

ChunkWithin(c, outer) ==
    /\ c.size >= 0
    /\ outer.p <= c.p
    /\ c.p + c.size <= outer.p + outer.size
ChunksDisjoint(a, b) ==
    a.size = 0 \/ b.size = 0 \/ a.p + a.size <= b.p \/ b.p + b.size <= a.p

\* The buffers of a run-former pass lie inside the arena and no two share a
\* byte; the carve of the pass is the one the pass works with, and every
\* record stored lies in the workspace.
RunFormerLayoutOk ==
    /\ ChunkWithin(input_mem, ArenaChunk)
    /\ ChunkWithin(output_mem, ArenaChunk)
    /\ ChunkWithin(membuf_mem, ArenaChunk)
    /\ ChunksDisjoint(input_mem, output_mem)
    /\ ChunksDisjoint(input_mem, membuf_mem)
    /\ ChunksDisjoint(output_mem, membuf_mem)
    /\ input_mem.size = InputMemSize
    /\ output_mem.size = SortOutMemSize
    /\ membuf_mem = [p |-> MembufBase, size |-> MembufSize]
    /\ \A k \in 1..Len(membuf.recs) :
          ChunkWithin([p |-> membuf.recs[k].addr,
                       size |-> INT_SIZE + membuf.recs[k].blen], membuf_mem)

\* The buffers of a merge pass that popped n runs.
MergeLayoutOk(n) ==
    /\ ChunkWithin(output_buf_mem, ArenaChunk)
    /\ MergeAvailAfter(0).size = MergeAvail
    /\ \A k \in 1..n :
          /\ input_buf_mem(k).size = MergeInBufSize
          /\ ChunkWithin(input_buf_mem(k), ArenaChunk)
          /\ ChunksDisjoint(input_buf_mem(k), output_buf_mem)
          /\ \A j \in 1..n : j # k => ChunksDisjoint(input_buf_mem(j), input_buf_mem(k))

\* C21: in every pass the buffers in use are sub-ranges of the arena, no two
\* of which overlap, whatever the size of the arena: the input buffer, the
\* output buffer and the workspace of a run-former pass; the output buffer
\* and the input buffer of each run popped of a merge pass.
C21_BuffersDisjoint ==
    [][/\ pc \in {"fill", "write"} => RunFormerLayoutOk
       /\ pc = "mtop" /\ pc' = "mloop" => MergeLayoutOk(PoppedCount)]_vars

C21_Witness ==
    /\ pc = "mloop"
    /\ arena = 32 * MiB
    /\ Len(transient_files) = 3
    /\ Len(tmp[1].items) = 2

\* The offset in the workspace of the lowest sort element, vb.
VbOffset(mb) == MembufSize - Len(mb.elems) * SORT_ELEMENT_SIZE
RecEnd(r) == r.addr + INT_SIZE + r.blen

\* C22: while a pass fills the workspace and writes it out, the record data
\* ends at or below vb, every record stored lies below vb and above the
\* records stored before it, and there is one sort element per record; each
\* turn of the fill loop that passed the fit test leaves the data, padding
\* included, at or below the new vb.
C22_DataBelowSortElements ==
    [][/\ pc \in {"fill", "write"} =>
            /\ membuf.dend <= VbOffset(membuf)
            /\ Len(membuf.elems) = Len(membuf.recs)
            /\ \A k \in 1..Len(membuf.recs) :
                  /\ membuf.recs[k].addr % HD2_ALIGNOF = 0
                  /\ MembufBase <= membuf.recs[k].addr
                  /\ RecEnd(membuf.recs[k]) <= MembufBase + VbOffset(membuf)
                  /\ k > 1 => RecEnd(membuf.recs[k - 1]) <= membuf.recs[k].addr
       /\ pc = "fill" /\ pc' = "fill" =>
            /\ Len(membuf'.elems) = Len(membuf.elems) + 1
            /\ membuf.dend < membuf'.dend
            /\ membuf'.dend <= VbOffset(membuf')]_vars

C22_Witness ==
    /\ pc = "write"
    /\ Len(membuf.recs) = 2
    /\ membuf.recs[1].blen = OddBody
    /\ membuf.recs[2].addr = MembufBase + 3 * HD2_ALIGNOF
    /\ membuf.recs[2].blen = FillWorkspace - FillSlack - AfterOdd
    /\ VbOffset(membuf) - membuf.dend < HD2_ALIGNOF

\* C23: for every arena size, the default of 8 GiB included, the offset
\* stored in the sort element of a record is the address of the record less
\* the base, so that get_header() is the record passed to init: the k-th
\* record stored and the element pushed for it (elements are pushed at the
\* front) agree.
C23_OffsetFits ==
    pc \in {"bigfill", "bigsort"} =>
        \A k \in 1..Len(membuf.recs) :
            membuf.elems[Len(membuf.elems) - k + 1].offset = membuf.recs[k].addr

ElemKey(e) == get_header(e, membuf.recs).key

C25_DeferralRule ==
    pc \in {"fill", "write"} =>
        \A k \in 1..Len(membuf.recs) :
            LET r == membuf.recs[k]
            IN  /\ r.hd.is_body_present = 0 <=>
                      (seekable /\ r.hd.body_size >= 1 * MiB)
                /\ r.hd.is_body_present = 0 => r.blen = 0
                /\ r.hd.is_body_present # 0 =>
                      /\ r.blen = r.hd.body_size
                      /\ r.body = input[r.hd.flags].body
                /\ ~seekable => r.hd.is_body_present = 1

C25_Witness ==
    /\ pc = "write"
    /\ seekable
    /\ Len(membuf.recs) = 3
    /\ membuf.recs[1].hd.body_size = 1 * MiB
    /\ membuf.recs[1].hd.is_body_present = 0
    /\ membuf.recs[2].hd.body_size = 0
    /\ membuf.recs[2].hd.is_body_present = 1
    /\ membuf.recs[3].hd.body_size = MaxBodySize
    /\ membuf.recs[3].blen = 0

\* C26: a turn of an intermediate merge pass appends to its run the header
\* the popped stream stands on, is_body_present and body_pos included, and
\* after it the body bytes of the run it reads when is_body_present is set,
\* no byte otherwise; so in no run does a header without body carry bytes.
C26_IntermediateCopy ==
    [][/\ pc = "mloop" /\ pc' = "mloop" /\ ~out.final =>
            \A x \in 1..Len(input_streams) : Popped(x) =>
                LET hd   == input_streams[x].ps.hd
                    run  == tmp'[out.id].items
                    last == run[Len(run)]
                IN  /\ Len(run) = Len(tmp[out.id].items) + 1
                    /\ last.hd = hd
                    /\ last.blen = (IF hd.is_body_present # 0 THEN hd.body_size ELSE 0)
                    /\ hd.is_body_present = 0 => last.body = EmptyBody
       /\ \A id \in 1..Len(tmp) : \A i \in 1..Len(tmp[id].items) :
             tmp[id].items[i].hd.is_body_present = 0 => tmp[id].items[i].blen = 0]_vars

C26_Witness ==
    /\ pc = "mloop"
    /\ ~out.final
    /\ Len(input) = FillerCount + 1
    /\ \E i \in 1..Len(tmp[out.id].items) :
          LET it == tmp[out.id].items[i]
          IN  /\ it.hd.is_body_present = 0
              /\ it.hd.body_size = MaxBodySize
              /\ it.hd.body_pos = EXT_SIZE
              /\ it.hd.flags = 1
              /\ it.blen = 0

\* What a parser shows right after its construction on file f, whose first
\* header decodes to first: a valid header equal to first iff the file holds
\* a record.
CtorShowsFirst(ps, f, first) ==
    /\ ps.hd_valid = (f.items # <<>>)
    /\ f.items # <<>> => ps.hd = first

CopyHeaderOf(k) ==
    IF CopyFromRun THEN tmp[1].items[k].hd
    ELSE parse_header(Src.items[k].hd, Src.items[k].off + EXT_SIZE)

\* Parser ps stands on record k of the file of the copying client: it shows
\* the header of the record, and its read position is in the body of the
\* record, body_left bytes before the end of it.
StandsOn(ps, k) ==
    /\ ps.hd_valid
    /\ k \in 1..Len(CopyFile.items)
    /\ ps.hd = CopyHeaderOf(k)
    /\ ps.body_left <= CopyFile.items[k].blen
    /\ PB_Pos(ps.pb) = CopyFile.items[k].off + CopyHdSize
                          + (CopyFile.items[k].blen - ps.body_left)

\* C28: for a parser that stands on a record, read_body with a slice
\* delivers the next min(slice size, bytes left) bytes of the stored body,
\* nothing (it returns false) when no byte is left, and a following
\* parse_next, whatever part of the body was read, leaves the parser on the
\* header of the next record, or exhausted after the last record.
C28_ReadBodyThenNext ==
    [][\A k \in 1..Len(CopyFile.items) :
          StandsOn(CopyPs, k) /\ pc \in {"copyhd", "copy"} /\ pc' # "failed" =>
            /\ pc = "copy" /\ pc' = "copy" =>
                  LET n == Min(RB_GetFreeMem(out, CopyMemSize).free, CopyPs.body_left)
                  IN  /\ CopyPs'.body_left = CopyPs.body_left - n
                      /\ StandsOn(CopyPs', k)
                      /\ RB_Pos(out') = RB_Pos(out) + n
            /\ pc' \in {"copyhd", "copyend"} /\ out' = out /\ CopyPs' # CopyPs =>
                  IF k < Len(CopyFile.items)
                  THEN /\ StandsOn(CopyPs', k + 1)
                       /\ CopyPs'.body_left = CopyFile.items[k + 1].blen
                  ELSE ~CopyPs'.hd_valid]_vars

\* C29: Exhausted is terminal.  Once parse_next has returned false on a
\* parser, is_header_valid() is false, and every later parse_next that
\* returns returns false and leaves is_header_valid() false.
C29_ExhaustedTerminal ==
    [][pc = "copyend" =>
          /\ ~CopyPs.hd_valid
          /\ pc' # "failed" => pc' = "copyend" /\ ~CopyPs'.hd_valid]_vars

\* parse_next was called MaxPastEnd times on a parser that was exhausted
\* with a part of the body of the last record unread.
C29_Witness ==
    /\ pc = "copyend"
    /\ segment_no = MaxPastEnd
    /\ input # <<>>
    /\ CopyPs.body_left > 0
    /\ PB_Pos(CopyPs.pb) > CopyFile.size

\* C30: alignment preservation.  In every state the copying client reaches
\* by put, get_free_mem, write and flush on its render buffer and by
\* parse_next and read_body (read, skip, align and the refills) on its parse
\* buffer, the address of the next byte to be written, and of the next byte
\* to be read when the window is not the null chunk, is congruent modulo
\* ALIGNMENT_MAX to the file offset of that byte.
C30_AlignmentPreserved ==
    pc \in {"copyhd", "copy", "copyend"} =>
        /\ (out.dbeg + out.dsize) % ALIGNMENT_MAX = RB_Pos(out) % ALIGNMENT_MAX
        /\ ~CopyPs.pb.dnull =>
              (CopyPs.pb.dend - CopyPs.pb.dsize) % ALIGNMENT_MAX
                  = PB_Pos(CopyPs.pb) % ALIGNMENT_MAX

\* The output was flushed in the middle of the buffer after the buffer had
\* wrapped around, and the window of the parser was refilled after a seek, at
\* an address that is not its file offset.
C30_Witness ==
    /\ pc \in {"copyhd", "copy"}
    /\ out.dbeg > 0
    /\ out.dbeg % INT_ALIGNMENT # 0
    /\ out.fpos > CopyMemSize
    /\ out.dsize > 0
    /\ ~CopyPs.pb.dnull
    /\ CopyPs.pb.dsize > 0
    /\ PB_Pos(CopyPs.pb) % ALIGNMENT_MAX # 0
    /\ CopyPs.pb.dend - CopyPs.pb.dsize # PB_Pos(CopyPs.pb)
    /\ (CopyPs.pb.dend - CopyPs.pb.dsize) % ALIGNMENT_MAX > INT_SIZE
    /\ CopyPs.hd.flags > 0

\* The alignments a caller may ask for: powers of two up to ALIGNMENT_MAX.
AlignSizes == {1, INT_ALIGNMENT, HD2_ALIGNOF, ALIGNMENT_MAX}

\* The parse buffer of the copying client at the moment parse_next calls
\* align: the rest of the body has been skipped.
CopyPbAtAlign == PB_Skip(CopyPs.pb, CopyPs.body_left)

\* C31: parse_buf::align(n) skips the least k >= 0 such that the file offset
\* of the next byte to be read plus k is a multiple of n, nothing when the
\* offset is a multiple of n already.
C31_AlignSkipsToOffset ==
    pc \in {"copyhd", "copy", "copyend"} =>
        \A n \in AlignSizes :
            LET pb == CopyPbAtAlign
            IN  PB_Pos(PB_Align(pb, n)) = PB_Pos(pb) + AlignPad(PB_Pos(pb), n)

\* C32: run-file round trip.  A parser over a run file shows the records of
\* the file and nothing else: a header it holds valid is the header of a
\* record, read at the offset of the record, with the read position in the
\* body of that record; parse_next goes from a record to the one that
\* follows it, and ends the stream after the last record only.
C32_RunReadBack ==
    /\ [](CopyFromRun /\ pc \in {"copyhd", "copy"} =>
            \E k \in 1..Len(CopyFile.items) : StandsOn(CopyPs, k))
    /\ [][CopyFromRun /\ pc \in {"copyhd", "copy"} /\ pc' # "failed"
             /\ CopyPs'.hd # CopyPs.hd =>
                \E k \in 1..(Len(CopyFile.items) - 1) :
                    StandsOn(CopyPs, k) /\ StandsOn(CopyPs', k + 1)]_vars
    /\ [][CopyFromRun /\ pc \in {"copyhd", "copy"} /\ pc' = "copyend" =>
                StandsOn(CopyPs, Len(CopyFile.items))]_vars

\* The address at which render_buf::write places the first of its bytes:
\* data.end() after the first get_free_mem.
RB_FirstByte(rb, msize) ==
    LET fm == RB_GetFreeMem(rb, msize) IN fm.rb.dbeg + fm.rb.dsize

\* C33: render_buf::write returns the address at which the first byte of
\* its bytes was placed, at every fill level of the buffer, also when the
\* bytes do not fit in the free space that is left and the buffer is written
\* out in the middle of the copy.  Checked on the write of a header by put
\* and on the write of a chunk of a body.
C33_WriteReturnsFirstByte ==
    [][/\ pc = "copyhd" /\ pc' = "copy" =>
            out'.origin =
                RB_FirstByte(IF out.final THEN out
                             ELSE RB_Align(out, INT_ALIGNMENT, CopyMemSize),
                             CopyMemSize)
       /\ pc = "copy" /\ pc' = "copy" /\ RB_Pos(out') # RB_Pos(out) =>
            out'.origin = RB_FirstByte(out, CopyMemSize)]_vars

\* The first n bytes of the stream, in their order.
StreamPrefix(n) == IF n = 0 THEN <<>> ELSE <<[from |-> 0, len |-> n]>>

\* C34: buffered writer equals unbuffered append.  After any sequence of
\* put (with its align and skip), write and flush, the file followed by the
\* buffer holds the bytes handed over, in the order of the calls, each once;
\* when the buffer is empty, after a flush, the file holds them all, and the
\* file position is their count.
C34_FileIsConcatenation ==
    pc \in {"copyhd", "copy", "copyend"} =>
        /\ CatSegs(out.file, out.data) = StreamPrefix(out.total)
        /\ out.fpos + out.dsize = out.total
        /\ out.dsize = 0 => out.file = StreamPrefix(out.total)

\* A flush in the middle of the buffer, after the buffer had wrapped around
\* and been written to from its start, has left the buffer empty.
C34_Witness ==
    /\ pc \in {"copyhd", "copyend"}
    /\ out.dsize = 0
    /\ out.dbeg > 0
    /\ out.fpos > CopyMemSize
    /\ out.origin = 0
    /\ out.total > 0
    /\ ~out.final

ReadAfterWrite(ev) ==
    \E i, j \in 1..Len(ev) : i < j /\ ev[i] = "write" /\ ev[j] = "read"

\* The parser of the source reads in the fill loop and in its constructor
\* only, the fill loop puts a new element in front of the others and leaves
\* these in place, and the output of the pass is opened on the step that
\* sorts them and holds no byte before the output loop runs.
PassOrder ==
    /\ (src_parser'.pb # src_parser.pb /\ pc' \notin {"merge", "failed"})
          => (pc \in {"split", "fill"} /\ pc' \in {"pass", "fill"})
    /\ (pc = "fill" /\ pc' = "fill")
          => /\ Len(membuf'.elems) = Len(membuf.elems) + 1
             /\ Tail(membuf'.elems) = membuf.elems
    /\ (pc' = "write" /\ pc # "write")
          => /\ pc = "fill"
             /\ out'.open /\ ~out.open
             /\ IF out'.final THEN dest'.items = <<>>
                ELSE tmp'[out'.id] = EmptyFile

\* C35: within a pass of split_and_sort every read of the source comes
\* before the sort and the sort before the first write of the output of the
\* pass; no read of the source follows the first write of the pass.
C35_ReadsSortWrites ==
    /\ [](pc = "write" => ~ReadAfterWrite(PassOutputCalls))
    /\ [][PassOrder]_vars

\* C35, amended: the reads of the parser of the source come before the sort
\* and the sort before the first write of the output; the output loop of a
\* pass that writes a temporary file reads nothing, the one of the final
\* pass reads from the source, through input2, the bodies left there, and
\* nothing when no body was left there.
C35_ParserReadsSortWrites ==
    /\ [](pc = "write" =>
            \/ "read" \notin Range(PassOutputCalls)
            \/ /\ out.final
               /\ seekable
               /\ \E i \in 1..Len(membuf.recs) :
                      membuf.recs[i].hd.is_body_present = 0)
    /\ [][PassOrder]_vars

\* The final pass is about to write a body left in the source that is
\* larger than the output buffer: the buffer is written to the destination
\* and the rest of the body is read after that.
C35_Witness ==
    /\ pc = "write"
    /\ out.final
    /\ ReadAfterWrite(PassOutputCalls)

StreamIds == {input_streams[i].id : i \in 1..Len(input_streams)}

\* The render buffer after the output loop of the pass that is about to
\* write and after output.flush().
PassOutputFlushed ==
    RB_Flush(OutputLoop([rb |-> RB_Init, ev |-> <<>>], membuf.elems, membuf.recs,
                        1, out.final, SortOutMemSize).rb)

\* The bytes of a run are all in its file once output.flush() has returned,
\* and fsync is the last call on the file.
RunFlushed ==
    /\ PassOutputFlushed.dsize = 0
    /\ PassOutputFlushed.file = StreamPrefix(PassOutputFlushed.total)
    /\ PassOutputFlushed.fpos =
           EmitInt(EmptyFile, membuf.elems, membuf.recs, 1).size
    /\ PassOutputCalls[Len(PassOutputCalls)] = "fsync"
    /\ \A i \in 1..(Len(PassOutputCalls) - 1) : PassOutputCalls[i] # "fsync"

\* The parsers of a merge pass are opened while no output is open, on files
\* that exist; a temporary file changes only while its writer is open and no
\* parser is open on it.
OpenAfterFlush ==
    /\ (pc = "mtop" /\ pc' = "mloop")
          => /\ ~out.open
             /\ StreamIds' \subseteq 1..Len(tmp)
             /\ out'.open /\ (~out'.final => out'.id \notin 1..Len(tmp))
    /\ \A id \in 1..Len(tmp) :
          tmp'[id] # tmp[id]
             => out.open /\ ~out.final /\ out.id = id /\ id \notin StreamIds

\* C36: a run file is completely written and flushed before a parser is
\* opened on it: no parser reads a file whose writer is still open, and
\* when the writer of a run is closed every byte of the run is in the file.
C36_FlushedBeforeOpened ==
    /\ [](/\ (out.open /\ ~out.final) => out.id \notin StreamIds
          /\ (pc = "write" /\ ~out.final) => RunFlushed
          /\ pc \in {"split", "pass", "fill", "write"} => input_streams = <<>>)
    /\ [][OpenAfterFlush]_vars

\* A merge pass reads a run that did not fit the output buffer of the pass
\* that wrote it, while it writes another temporary file.
C36_Witness ==
    /\ pc = "mloop"
    /\ out.open /\ ~out.final
    /\ \E id \in StreamIds : tmp[id].size > SortOutMemSize
    /\ tmp[out.id].size > 0

\* C37: when split_and_sort returns the queue of temporary files does not
\* hold exactly one run: it is empty, and pass 0 has written the
\* destination, or it holds two runs or more, and the destination is not
\* written yet.
C37_NeverOneRun ==
    pc = "merge" =>
        /\ Len(transient_files) # 1
        /\ transient_files = <<>> => dest.exists
        /\ transient_files # <<>> => Len(transient_files) >= 2 /\ ~dest.exists

\* split_and_sort has returned after a pass 0 that could not hold the whole
\* input: the queue holds the runs of two passes or more.
C37_Witness ==
    /\ pc = "merge"
    /\ Len(transient_files) >= 2
    /\ \E i \in 1..Len(transient_files) : tmp[transient_files[i]].size > 0
====
